---- MODULE Spec2Model ----
(***************************************************************************)
(* A model of plimsoll (src/src/plimsoll.js): the lazy query builder       *)
(* returned by sendNativeQuery, the transaction runner, and the model      *)
(* operations with the statements they compile, run against a small        *)
(* relational store.                                                        *)
(*                                                                         *)
(* JavaScript values are encoded as integers so that any two of them can   *)
(* be compared: small positive integers are numbers (ids, timestamps),     *)
(* and the named constants below stand for undefined, null, the NOW        *)
(* placeholder and a few strings.                                          *)
(***************************************************************************)
EXTENDS Integers, Sequences, FiniteSets, TLC

-----------------------------------------------------------------------------
(* Bounds of the model *)

\* how many times one builder is forced (then is called on it); SpecReforce
\* forces it once more
MaxForces == 1
\* how many modifier calls are made on one builder
MaxMods == 2
\* the largest value Date.now() takes
MaxClock == 2
\* how many transactions run concurrently
MaxTx == 2
\* rows the table may hold
MaxTableRows == 2
\* entries a criteria mapping may have, where mappings are enumerated
MaxEntries == 2

-----------------------------------------------------------------------------
(* Values *)

\* the NOW placeholder object
NOW == -30
\* JavaScript undefined and null (SQL NULL)
Undefined == -20
Null == -10
\* false
False == 30
\* strings: the empty string and the names the tests use
EmptyString == 20
SomeValue == 10
Alice == 11
Bob == 12
Charlie == 13
\* objects: ObjectBase + Copies * c + n is the n-th copy of an object with
\* content c, the copy 0 being the object first made
ObjectBase == 3000
Copies == 10
IsObject(v) == v >= ObjectBase
Content(v) == (v - ObjectBase) \div Copies
\* lodash cloneDeep: another object with the content of v, or v itself when
\* v is no object
cloneDeep(v) == IF IsObject(v) THEN v + 1 ELSE v
\* a BIGINT column comes back from storage as a string of digits:
\* BigintString(n) is the string, Number(s) what Number() makes of it
BigintBase == 1000
BigintString(n) == IF n >= 0 THEN BigintBase + n ELSE n
Number(s) == IF s >= BigintBase THEN s - BigintBase ELSE s
\* arrays in criteria: ArrayBase + i stands for the array Arrays[i]
ArrayBase == 500
Arrays == << <<1, 2>>, <<Alice, Charlie>>, <<>> >>
IsArray(v) == v > ArrayBase /\ v <= ArrayBase + Len(Arrays)
ArrayOf(v) == Arrays[v - ArrayBase]
Elements(v) == {ArrayOf(v)[i] : i \in 1..Len(ArrayOf(v))}
\* what JavaScript takes for false in a condition
IsFalsy(v) == v \in {Undefined, Null, 0, EmptyString, False}

\* connections: NoConn is undefined, a caller connection is the argument of
\* usingConnection, a pool connection is what pool.connect() resolved to
NoConn == [owner |-> "none", n |-> 0]
CallerConn(i) == [owner |-> "caller", n |-> i]
PoolConn(i) == [owner |-> "pool", n |-> i]

\* values a promise settles with, and errors: k names the kind, code is
\* err.code (0 when the error has none) or the number of rows of a result
Val(k, c) == [k |-> k, code |-> c]
NoVal == Val("none", 0)

-----------------------------------------------------------------------------
VARIABLES
  \* ---- one builder returned by sendNativeQuery
  opts,     \* the opts object of the closure
  sql,      \* the sql variable of the closure: the appended fragments
  args,     \* the args variable of the closure
  now,      \* Date.now()
  mods,     \* the modifier calls made so far: how many, and which
  frc,      \* frc[f]: the f-th call of then() on the builder
  \* ---- transaction(fn)
  tx,       \* tx[t]: the t-th call of transaction()
  \* ---- a model and its table
  M,        \* the model in use
  db,       \* the rows of its table, in the order storage returns them
  rel,      \* the rows of the table of model Simple, which populate reads
  nextId,   \* the next value of the table's id sequence
  pb,       \* what the last model operation returned, until it is awaited
  last,     \* the last await of such a value: what was sent and how it settled
  \* ---- the registry
  ap        \* the last call of module.exports or withDefaultValues: what it
            \* was given, what it returned and what it left in its arguments

bvars == <<opts, sql, args, now, mods, frc>>
mvars == <<M, db, rel, nextId, pb, last, ap>>
notBuilder == <<tx, mvars>>
notTx == <<opts, sql, args, now, mods, frc, mvars>>
vars == <<opts, sql, args, now, mods, frc, tx, M, db, rel, nextId, pb, last, ap>>

-----------------------------------------------------------------------------
(* The builder: sendNativeQuery(sql, args, opts) *)

\* a fragment appended to sql by then(): RETURNING *, ORDER BY col dir, LIMIT n
Frag(kw, col, dir, n) == [kw |-> kw, col |-> col, dir |-> dir, n |-> n]

\* the argument of limit(): a safe integer ("int"), another number ("frac",
\* "unsafe"), a value that is no number ("str"), or undefined
Lim(t, v) == [t |-> t, v |-> v]
NoLimit == Lim("undefined", 0)
LimitInputs == {Lim("int", 1), Lim("int", -1), Lim("frac", 1), Lim("str", 0)}

\* Number.isSafeInteger
IsSafeInteger(l) == l.t = "int"

\* the argument of sort(), as orderBy.trim().split(/\s+/) cuts it; <<>> is
\* undefined
SortInputs == {<<"name">>, <<"name", "desc">>, <<"name", "sideways">>,
               <<"name", "asc", "x">>}

\* the argument of populate(): an attribute with a model, and one without
PopulateInputs == {"my_simple", "name"}

\* String.prototype.toUpperCase on the direction tokens in use
ToUpperCase(t) ==
  CASE t = "asc" -> "ASC"
    [] t = "desc" -> "DESC"
    [] t = "sideways" -> "SIDEWAYS"
    [] OTHER -> t

\* error kinds known to intercept(), and the handlers given to it: a function
\* returning a value, a function that throws, a string, a number
ErrNames == {"E_UNIQUE", "E_INVALID"}
Handlers == {"fn", "fnThrows", "str", "num"}

\* getErrorCodesFor as it would be with every name mapped to 23505
getErrorCodesForAnyName(sailsErrorName) == {23505}
\* getErrorCodesFor, lines 378-383
getErrorCodesFor(sailsErrorName) ==
  IF sailsErrorName = "E_UNIQUE" THEN {23505} ELSE {}

\* codes of the errors storage raises: for a statement it can run (a
\* uniqueness violation, a cardinality violation), and for one it cannot parse
StorageCodes == {23505, 21000}
SyntaxCodes == {42601}
AllCodes == StorageCodes \cup SyntaxCodes

buildOrderByQuery(orderBy) ==
  IF orderBy = <<>> THEN [threw |-> FALSE, frag |-> <<>>]
  ELSE IF Len(orderBy) > 2 THEN [threw |-> TRUE, frag |-> <<>>]
  ELSE LET dir == IF Len(orderBy) = 2 THEN ToUpperCase(orderBy[2]) ELSE ""
       IN IF dir # "" /\ dir \notin {"ASC", "DESC"}
          THEN [threw |-> TRUE, frag |-> <<>>]
          ELSE [threw |-> FALSE, frag |-> <<Frag("ORDER BY", orderBy[1], dir, 0)>>]

buildLimitQuery(limit) ==
  IF limit = NoLimit THEN <<>> ELSE <<Frag("LIMIT", "", "", limit.v)>>

\* a variant that resolves the first marker only
ResolveNowFirstOnly(list, t) ==
  [i \in 1..Len(list) |->
     IF list[i] = NOW /\ \A j \in 1..(i - 1) : list[j] # NOW THEN t ELSE list[i]]
\* args.map(it => it === NOW ? now : it)
ResolveNow(list, t) == [i \in 1..Len(list) |-> IF list[i] = NOW THEN t ELSE list[i]]

\* then(), lines 93-104: the text appended to sql and the timestamps put
\* into args before the first await
ThenPrepare(o, s, a, t) ==
  LET s1 == IF o.fetch THEN Append(s.tail, Frag("RETURNING", "", "", 0)) ELSE s.tail
      ob == buildOrderByQuery(o.orderBy)
  IN IF ob.threw
     THEN [threw |-> TRUE, sql |-> [s EXCEPT !.tail = s1], args |-> a]
     ELSE [threw |-> FALSE,
           sql |-> [s EXCEPT !.tail = s1 \o ob.frag \o buildLimitQuery(o.limit)],
           args |-> IF a.present
                    THEN [a EXCEPT !.list = ResolveNow(a.list, t)] ELSE a]

\* the options each model operation hands to sendNativeQuery
BaseOpts(kind) ==
  [client |-> NoConn, fetch |-> kind = "updateOne", limit |-> NoLimit,
   populate |-> "", orderBy |-> <<>>,
   intercepters |-> [c \in AllCodes |-> "none"],
   single |-> kind \in {"create", "updateOne"},
   returnSingleRow |-> kind = "findOne",
   returnRows |-> kind = "find",
   hasModel |-> kind # "native"]

\* the statement each model operation compiles, by its verb
BaseSql(kind) ==
  [base |-> CASE kind \in {"create", "createEach"} -> "INSERT"
              [] kind \in {"update", "updateOne"} -> "UPDATE"
              [] OTHER -> "SELECT",
   tail |-> <<>>]

\* the argument list each model operation compiles (an Audited-like model:
\* a name and two auto-timestamps per row)
BaseArgs(kind) ==
  CASE kind = "native" -> [present |-> FALSE, list |-> <<>>]
    [] kind = "create" -> [present |-> TRUE, list |-> <<SomeValue, NOW, NOW>>]
    [] kind = "createEach" ->
         [present |-> TRUE, list |-> <<SomeValue, NOW, NOW, SomeValue, NOW, NOW>>]
    [] kind \in {"update", "updateOne"} ->
         [present |-> TRUE, list |-> <<SomeValue, NOW, SomeValue>>]
    [] kind = "find" -> [present |-> TRUE, list |-> <<>>]
    [] OTHER -> [present |-> TRUE, list |-> <<SomeValue>>]

Kinds == {"native", "create", "find", "findOne", "update", "updateOne"}

Forces == DOMAIN frc

\* one call of then(resolve, reject): where it stands, its local client, and
\* what it has done so far
IdleForce ==
  [pc |-> "idle", client |-> NoConn, boundTo |-> NoConn,
   connects |-> 0, primary |-> 0, populate |-> 0,
   primaryOn |-> NoConn, populateOn |-> NoConn,
   sentSql |-> [base |-> "", tail |-> <<>>],
   sentArgs |-> [present |-> FALSE, list |-> <<>>], rows |-> 0,
   released |-> <<>>, resolves |-> 0, rejects |-> 0,
   val |-> NoVal, thrown |-> NoVal,
   caught |-> NoVal, intercepter |-> "none"]

\* a call of a modifier, with its argument where a claim needs it
Called(name, arg) == [m |-> name, a |-> arg]
\* the calls made on the builder: how many, and which
NoCalls == [n |-> 0, calls |-> {}]
Made(made, call) == [n |-> made.n + 1, calls |-> made.calls \cup {call}]

BuilderInit(nForces) ==
  /\ \E kind \in Kinds :
       /\ opts = BaseOpts(kind)
       /\ sql = BaseSql(kind)
       /\ args = BaseArgs(kind)
  /\ now = 1
  /\ mods = NoCalls
  /\ frc = [f \in 1..nForces |-> IdleForce]

\* ---- modifiers: each sets a field of opts and returns the builder

usingConnection(client) ==
  /\ mods.n < MaxMods
  /\ opts' = [opts EXCEPT !.client = client]
  /\ mods' = Made(mods, Called("usingConnection", ""))
  /\ UNCHANGED <<sql, args, now, frc, notBuilder>>

fetch ==
  /\ mods.n < MaxMods
  /\ opts' = [opts EXCEPT !.fetch = TRUE]
  /\ mods' = Made(mods, Called("fetch", ""))
  /\ UNCHANGED <<sql, args, now, frc, notBuilder>>

intercept(errName, handler) ==
  /\ mods.n < MaxMods
  /\ opts' = [opts EXCEPT !.intercepters =
                [c \in AllCodes |-> IF c \in getErrorCodesFor(errName)
                                    THEN handler ELSE @[c]]]
  /\ mods' = Made(mods, Called("intercept", errName))
  /\ UNCHANGED <<sql, args, now, frc, notBuilder>>

\* limit() throws, and sets nothing, unless its argument is a safe integer
limit(l) ==
  /\ mods.n < MaxMods
  /\ opts' = IF IsSafeInteger(l) THEN [opts EXCEPT !.limit = l] ELSE opts
  /\ mods' = Made(mods, Called("limit", IF IsSafeInteger(l) THEN "" ELSE "threw"))
  /\ UNCHANGED <<sql, args, now, frc, notBuilder>>

populate(prop) ==
  /\ mods.n < MaxMods
  /\ opts' = [opts EXCEPT !.populate = prop]
  /\ mods' = Made(mods, Called("populate", prop))
  /\ UNCHANGED <<sql, args, now, frc, notBuilder>>

sort(criteria) ==
  /\ mods.n < MaxMods
  /\ opts' = [opts EXCEPT !.orderBy = criteria]
  /\ mods' = Made(mods, Called("sort", ""))
  /\ UNCHANGED <<sql, args, now, frc, notBuilder>>

\* ---- then(resolve, reject)

\* how many fragments with keyword kw the statement holds
CountKw(s, kw) == Cardinality({i \in 1..Len(s.tail) : s.tail[i].kw = kw})

\* what storage can run: each clause at most once, RETURNING on a write
\* only, ORDER BY and LIMIT on a read only, no negative LIMIT
WellFormed(s) ==
  /\ \A kw \in {"RETURNING", "ORDER BY", "LIMIT"} : CountKw(s, kw) <= 1
  /\ CountKw(s, "RETURNING") > 0 => s.base \in {"INSERT", "UPDATE"}
  /\ CountKw(s, "ORDER BY") + CountKw(s, "LIMIT") > 0 => s.base = "SELECT"
  /\ \A i \in 1..Len(s.tail) : s.tail[i].n >= 0

\* whether a statement reports rows
ReturnsRows(s) == s.base = "SELECT" \/ CountKw(s, "RETURNING") > 0

\* client.query(sql, args) on connection c: the primary statement
SendPrimary(r, c, s, a) ==
  [r EXCEPT !.pc = "primary", !.client = c, !.primary = @ + 1,
            !.primaryOn = c, !.sentSql = s, !.sentArgs = a]

\* a variant of the finally block that releases whatever client was used
FinallyReleasesAlways(r, o) ==
  IF r.client # NoConn
  THEN [r EXCEPT !.released = Append(@, r.client)]
  ELSE r
\* the finally block, lines 151-155
Finally(r, o) ==
  IF r.client # NoConn /\ o.client = NoConn
  THEN [r EXCEPT !.released = Append(@, r.client)]
  ELSE r

\* resolve(v), then the finally block
Resolve(r, v, o) ==
  Finally([r EXCEPT !.pc = "done", !.resolves = @ + 1, !.val = v], o)

\* the catch block, lines 139-150, then the finally block; caught and
\* intercepter keep the error it was entered with and the handler it found
Catch(r, err, o) ==
  LET intercepter == IF err.code \in AllCodes THEN o.intercepters[err.code]
                     ELSE "none"
      c == [r EXCEPT !.caught = err, !.intercepter = intercepter]
  IN Finally(
       CASE intercepter = "none" ->
              [c EXCEPT !.pc = "done", !.rejects = @ + 1, !.val = err]
         [] intercepter = "fn" ->
              [c EXCEPT !.pc = "done", !.rejects = @ + 1,
                        !.val = Val("HandlerResult", err.code)]
         [] intercepter = "fnThrows" ->
              [c EXCEPT !.pc = "threw", !.thrown = Val("HandlerError", 0)]
         [] intercepter = "str" ->
              [c EXCEPT !.pc = "done", !.rejects = @ + 1,
                        !.val = Val("HandlerString", 0)]
         [] OTHER ->
              [c EXCEPT !.pc = "threw", !.thrown = Val("NoHandling", 0)],
       o)

\* getModelWithName(opts.Model.attributes[opts.populate].model) finds a model
PopulateModelFound(o) == o.populate = "my_simple"

\* then() up to its first await
Force(f) ==
  /\ frc[f].pc = "idle"
  /\ IF f = 1 THEN TRUE ELSE frc[f - 1].pc # "idle"
  /\ LET p == ThenPrepare(opts, sql, args, now)
     IN /\ sql' = p.sql
        /\ args' = p.args
        /\ frc' = [frc EXCEPT ![f] =
             IF p.threw
             THEN [@ EXCEPT !.pc = "threw", !.thrown = Val("OrderByError", 0)]
             ELSE IF opts.client # NoConn
             THEN SendPrimary([@ EXCEPT !.boundTo = opts.client], opts.client, p.sql, p.args)
             ELSE [@ EXCEPT !.pc = "connecting", !.connects = @ + 1]]
  /\ UNCHANGED <<opts, now, mods, notBuilder>>

\* pool.connect() resolves: the primary statement is sent
ConnectOk(f) ==
  /\ frc[f].pc = "connecting"
  /\ frc' = [frc EXCEPT ![f] = SendPrimary(@, PoolConn(f), sql, args)]
  /\ UNCHANGED <<opts, sql, args, now, mods, notBuilder>>

\* a variant in which the failed lease leaves a client behind for the finally
\* block
ConnectFailHoldingClient(f) ==
  /\ frc[f].pc = "connecting"
  /\ frc' = [frc EXCEPT ![f] =
       Catch([@ EXCEPT !.client = PoolConn(f)], Val("ConnectError", 0), opts)]
  /\ UNCHANGED <<opts, sql, args, now, mods, notBuilder>>
\* pool.connect() rejects
ConnectFail(f) ==
  /\ frc[f].pc = "connecting"
  /\ frc' = [frc EXCEPT ![f] = Catch(@, Val("ConnectError", 0), opts)]
  /\ UNCHANGED <<opts, sql, args, now, mods, notBuilder>>

\* the primary statement succeeds with n rows (none, or one): lines 111-138
PrimaryOk(f, n) ==
  /\ frc[f].pc = "primary"
  /\ WellFormed(frc[f].sentSql)
  /\ n = 0 \/ ReturnsRows(frc[f].sentSql)
  /\ LET r == [frc[f] EXCEPT !.rows = n]
         isSingle == opts.returnSingleRow \/ (opts.fetch /\ opts.single)
         isMulti == opts.returnRows \/ opts.fetch
         sendPopulate == [r EXCEPT !.pc = "populating", !.populate = @ + 1,
                                   !.populateOn = r.client]
     IN frc' = [frc EXCEPT ![f] =
          IF isSingle
          THEN IF ~opts.hasModel THEN Catch(r, Val("NoModelError", 0), opts)
               ELSE IF opts.populate = "" THEN Resolve(r, Val("row", n), opts)
               ELSE IF ~PopulateModelFound(opts) \/ n = 0
               THEN Catch(r, Val("TypeError", 0), opts)
               ELSE sendPopulate
          ELSE IF isMulti
          THEN IF ~opts.hasModel /\ n > 0 THEN Catch(r, Val("NoModelError", 0), opts)
               ELSE IF opts.populate = "" THEN Resolve(r, Val("rows", n), opts)
               ELSE IF ~opts.hasModel \/ ~PopulateModelFound(opts)
               THEN Catch(r, Val("TypeError", 0), opts)
               ELSE sendPopulate
          ELSE Resolve(r, Val("result", n), opts)]
  /\ UNCHANGED <<opts, sql, args, now, mods, notBuilder>>

\* the primary statement fails with a native error code
PrimaryFail(f, code) ==
  /\ frc[f].pc = "primary"
  /\ code \in (IF WellFormed(frc[f].sentSql) THEN StorageCodes ELSE SyntaxCodes)
  /\ frc' = [frc EXCEPT ![f] = Catch(@, Val("StorageError", code), opts)]
  /\ UNCHANGED <<opts, sql, args, now, mods, notBuilder>>

\* the populate follow-up succeeds: lines 118-121 and 130-135
PopulateOk(f) ==
  /\ frc[f].pc = "populating"
  /\ frc' = [frc EXCEPT ![f] =
       Resolve(@, Val(IF opts.returnSingleRow \/ (opts.fetch /\ opts.single)
                      THEN "row" ELSE "rows", @.rows), opts)]
  /\ UNCHANGED <<opts, sql, args, now, mods, notBuilder>>

\* the populate follow-up fails
PopulateFail(f, code) ==
  /\ frc[f].pc = "populating"
  /\ code \in StorageCodes
  /\ frc' = [frc EXCEPT ![f] = Catch(@, Val("StorageError", code), opts)]
  /\ UNCHANGED <<opts, sql, args, now, mods, notBuilder>>

\* the connections callers bind builders to
CallerConns == {CallerConn(1), CallerConn(2)}

Next ==
  \/ \E c \in CallerConns : usingConnection(c)
  \/ fetch
  \/ \E e \in ErrNames, h \in Handlers : intercept(e, h)
  \/ \E l \in LimitInputs : limit(l)
  \/ \E p \in PopulateInputs : populate(p)
  \/ \E c \in SortInputs : sort(c)
  \/ \E f \in Forces : Force(f)
  \/ \E f \in Forces : ConnectOk(f)
  \/ \E f \in Forces : ConnectFail(f)
  \/ \E f \in Forces, n \in {0, 1} : PrimaryOk(f, n)
  \/ \E f \in Forces, code \in AllCodes : PrimaryFail(f, code)
  \/ \E f \in Forces : PopulateOk(f)
  \/ \E f \in Forces, code \in StorageCodes : PopulateFail(f, code)

-----------------------------------------------------------------------------
(* The transaction runner: transaction(fn) *)

\* what the unit of work fn resolves to, and the errors it fails with
FnResults == {SomeValue, Undefined}
FnErrors == {Val("FnError", 0), Val("StorageError", 23505)}
\* the error a BEGIN, COMMIT or ROLLBACK statement fails with
StatementError == Val("StatementError", 0)

Txs == DOMAIN tx

\* one call of transaction(fn): where it stands, what it has done on its
\* client (statements issued and completed, fn invoked, release), the value
\* fn returned, the error caught, and how the call settled
NewTx ==
  [pc |-> "connecting", log |-> <<>>, res |-> Undefined, fnErr |-> NoVal,
   err |-> NoVal, outcome |-> "pending", val |-> NoVal]

\* a Val carrying a result of fn
Result(v) == Val("result", v)

\* line 33: pool.connect() resolves; line 35 issues BEGIN
TxConnectOk(t) ==
  /\ tx[t].pc = "connecting"
  /\ tx' = [tx EXCEPT ![t] = [@ EXCEPT !.pc = "begin", !.log = Append(@, "BEGIN")]]
  /\ UNCHANGED notTx

\* line 33: pool.connect() rejects, outside the try block
TxConnectFail(t) ==
  /\ tx[t].pc = "connecting"
  /\ tx' = [tx EXCEPT ![t] = [@ EXCEPT !.pc = "ended", !.outcome = "rejected",
                                       !.val = Val("ConnectError", 0)]]
  /\ UNCHANGED notTx

\* the catch block up to its await: ROLLBACK is issued for the error caught
TxCatch(r, e) ==
  [r EXCEPT !.pc = "rollback", !.err = e, !.log = Append(@, "ROLLBACK")]

\* the finally block: the client is released
TxFinally(r) == [r EXCEPT !.log = Append(@, "release")]

\* BEGIN completes; line 37 invokes fn(client)
TxBeginOk(t) ==
  /\ tx[t].pc = "begin"
  /\ tx' = [tx EXCEPT ![t] =
       [@ EXCEPT !.pc = "fn", !.log = @ \o <<"BEGIN ok", "fn">>]]
  /\ UNCHANGED notTx

TxBeginFail(t) ==
  /\ tx[t].pc = "begin"
  /\ tx' = [tx EXCEPT ![t] =
       TxCatch([@ EXCEPT !.log = Append(@, "BEGIN failed")], StatementError)]
  /\ UNCHANGED notTx

\* fn resolves to v; line 39 issues COMMIT
TxFnOk(t, v) ==
  /\ tx[t].pc = "fn"
  /\ tx' = [tx EXCEPT ![t] =
       [@ EXCEPT !.pc = "commit", !.res = v, !.log = @ \o <<"fn ok", "COMMIT">>]]
  /\ UNCHANGED notTx

\* fn fails with e
TxFnFail(t, e) ==
  /\ tx[t].pc = "fn"
  /\ tx' = [tx EXCEPT ![t] =
       TxCatch([@ EXCEPT !.fnErr = e, !.log = Append(@, "fn failed")], e)]
  /\ UNCHANGED notTx

\* TxCommitOk as it would be if line 41 returned the result of COMMIT
TxCommitOkReturnsCommit(t) ==
  /\ tx[t].pc = "commit"
  /\ tx' = [tx EXCEPT ![t] =
       TxFinally([@ EXCEPT !.pc = "ended", !.outcome = "resolved",
                           !.val = Val("CommitResult", 0),
                           !.log = Append(@, "COMMIT ok")])]
  /\ UNCHANGED notTx

\* COMMIT completes; line 41 returns res, through the finally block
TxCommitOk(t) ==
  /\ tx[t].pc = "commit"
  /\ tx' = [tx EXCEPT ![t] =
       TxFinally([@ EXCEPT !.pc = "ended", !.outcome = "resolved",
                           !.val = Result(tx[t].res),
                           !.log = Append(@, "COMMIT ok")])]
  /\ UNCHANGED notTx

TxCommitFail(t) ==
  /\ tx[t].pc = "commit"
  /\ tx' = [tx EXCEPT ![t] =
       TxCatch([@ EXCEPT !.log = Append(@, "COMMIT failed")], StatementError)]
  /\ UNCHANGED notTx

\* ROLLBACK completes; line 44 rethrows err, through the finally block
TxRollbackOk(t) ==
  /\ tx[t].pc = "rollback"
  /\ tx' = [tx EXCEPT ![t] =
       TxFinally([@ EXCEPT !.pc = "ended", !.outcome = "rejected",
                           !.val = tx[t].err,
                           !.log = Append(@, "ROLLBACK ok")])]
  /\ UNCHANGED notTx

\* TxRollbackFail as it would be with the release at the end of the catch
\* block instead of in a finally block
TxRollbackFailNoRelease(t) ==
  /\ tx[t].pc = "rollback"
  /\ tx' = [tx EXCEPT ![t] =
       [@ EXCEPT !.pc = "ended", !.outcome = "rejected",
                 !.val = Val("RollbackError", 0),
                 !.log = Append(@, "ROLLBACK failed")]]
  /\ UNCHANGED notTx

\* ROLLBACK fails: the await of line 43 throws out of the catch block,
\* through the finally block
TxRollbackFail(t) ==
  /\ tx[t].pc = "rollback"
  /\ tx' = [tx EXCEPT ![t] =
       TxFinally([@ EXCEPT !.pc = "ended", !.outcome = "rejected",
                           !.val = Val("RollbackError", 0),
                           !.log = Append(@, "ROLLBACK failed")])]
  /\ UNCHANGED notTx

NextTx ==
  \/ \E t \in Txs : TxConnectOk(t)
  \/ \E t \in Txs : TxConnectFail(t)
  \/ \E t \in Txs : TxBeginOk(t)
  \/ \E t \in Txs : TxBeginFail(t)
  \/ \E t \in Txs, v \in FnResults : TxFnOk(t, v)
  \/ \E t \in Txs, e \in FnErrors : TxFnFail(t, e)
  \/ \E t \in Txs : TxCommitOk(t)
  \/ \E t \in Txs : TxCommitFail(t)
  \/ \E t \in Txs : TxRollbackOk(t)
  \/ \E t \in Txs : TxRollbackFail(t)

-----------------------------------------------------------------------------
(* The model registry and the compilers *)

\* an attribute definition; Undefined stands for a key that is not given
AttrDef(type, autoIncrement, autoCreatedAt, autoUpdatedAt) ==
  [type |-> type, allowNull |-> FALSE, defaultsTo |-> Undefined,
   autoIncrement |-> autoIncrement, autoCreatedAt |-> autoCreatedAt,
   autoUpdatedAt |-> autoUpdatedAt, model |-> ""]

\* the models of the tests: Simple and Audited, and WithRelationship, which
\* refers to Simple
ModelNames == {"Simple", "Audited"}

\* Object.keys(Model.attributes), in declaration order
AttrNames(m) ==
  CASE m = "Simple" -> <<"id", "name">>
    [] m = "WithRelationship" -> <<"id", "name", "my_simple">>
    [] OTHER -> <<"id", "name", "created_at", "inserted_at", "updated_at", "_set_at">>

\* Model.attributes[a]
Attributes(m, a) ==
  CASE a = "id" -> AttrDef("number", TRUE, FALSE, FALSE)
    [] a = "name" -> AttrDef("string", FALSE, FALSE, FALSE)
    [] a \in {"created_at", "inserted_at"} -> AttrDef("number", FALSE, TRUE, FALSE)
    [] a \in {"updated_at", "_set_at"} -> AttrDef("number", FALSE, FALSE, TRUE)
    [] a = "my_simple" -> [AttrDef("", FALSE, FALSE, FALSE) EXCEPT !.model = "Simple"]

\* the columns of the model's table, and those declared BIGINT
Columns(m) == {AttrNames(m)[i] : i \in 1..Len(AttrNames(m))}
BigintColumns == {"created_at", "inserted_at", "updated_at", "_set_at"}

\* ---- property maps: a JavaScript object as the sequence of its entries,
\* in key order

Entry(k, v) == [k |-> k, v |-> v]
Keys(props) == [i \in 1..Len(props) |-> props[i].k]
HasKey(props, k) == \E i \in 1..Len(props) : props[i].k = k
\* props[k]
Get(props, k) ==
  IF HasKey(props, k)
  THEN props[CHOOSE i \in 1..Len(props) : props[i].k = k].v
  ELSE Undefined
\* props[k] = v
Put(props, k, v) ==
  IF HasKey(props, k)
  THEN [i \in 1..Len(props) |-> IF props[i].k = k THEN Entry(k, v) ELSE props[i]]
  ELSE Append(props, Entry(k, v))

\* no call of module.exports or withDefaultValues yet
NoCall == [f |-> "none"]

\* the value the switch(type) of lines 427-431 and 468-472 assigns;
\* Undefined when no case applies
ZeroValue(type) ==
  CASE type = "string" -> EmptyString
    [] type = "number" -> 0
    [] type = "boolean" -> False
    [] OTHER -> Undefined

\* as DefaultOne, but assigning the default itself
DefaultOneSharingDefault(cfg, props, attr, creating) ==
  LET p1 == IF creating /\ Get(props, attr) = Undefined /\ cfg.defaultsTo # Undefined
            THEN Put(props, attr, cfg.defaultsTo) ELSE props
      v == Get(p1, attr)
  IN IF (creating /\ v = Undefined) \/ v = Null
     THEN IF cfg.autoCreatedAt
          THEN IF creating THEN Put(p1, attr, NOW) ELSE p1
          ELSE IF cfg.autoUpdatedAt THEN Put(p1, attr, NOW)
          ELSE IF ~cfg.allowNull /\ ZeroValue(cfg.type) # Undefined
          THEN Put(p1, attr, ZeroValue(cfg.type))
          ELSE p1
     ELSE p1

\* withDefaultValues, for one attribute
DefaultOne(cfg, props, attr, creating) ==
  LET p1 == IF creating /\ Get(props, attr) = Undefined /\ cfg.defaultsTo # Undefined
            THEN Put(props, attr, cloneDeep(cfg.defaultsTo)) ELSE props
      v == Get(p1, attr)
  IN IF (creating /\ v = Undefined) \/ v = Null
     THEN IF cfg.autoCreatedAt
          THEN IF creating THEN Put(p1, attr, NOW) ELSE p1
          ELSE IF cfg.autoUpdatedAt THEN Put(p1, attr, NOW)
          ELSE IF ~cfg.allowNull /\ ZeroValue(cfg.type) # Undefined
          THEN Put(p1, attr, ZeroValue(cfg.type))
          ELSE p1
     ELSE p1

\* Object.entries(Model.attributes) of a model of the tests
AttributeEntries(m) ==
  [i \in 1..Len(AttrNames(m)) |-> Entry(AttrNames(m)[i], Attributes(m, AttrNames(m)[i]))]

\* the forEach of withDefaultValues over the entries attributes, from the
\* i-th on
RECURSIVE DefaultFrom(_, _, _, _)
DefaultFrom(attributes, props, creating, i) ==
  IF i > Len(attributes) THEN props
  ELSE DefaultFrom(attributes,
                   DefaultOne(attributes[i].v, props, attributes[i].k, creating),
                   creating, i + 1)

withDefaultValues(m, props, creating) ==
  DefaultFrom(AttributeEntries(m), props, creating, 1)

\* JSON.stringify of a value
JsonBase == 2000
JsonStringify(v) == JsonBase + v

\* as buildValuesQuery, but numbering the placeholders of every tuple from 1
buildValuesQueryFromOne(cols, props, values) ==
  [q |-> [i \in 1..Len(cols) |-> i],
   values |-> values \o [i \in 1..Len(cols) |-> Get(props, cols[i])]]

\* buildValuesQuery: one tuple of placeholders, its values pushed
buildValuesQuery(cols, props, values) ==
  [q |-> [i \in 1..Len(cols) |-> Len(values) + i],
   values |-> values \o [i \in 1..Len(cols) |-> Get(props, cols[i])]]

\* buildSetQuery: `col = $n` per entry, its values pushed
buildSetQuery(m, props, values) ==
  [sets |-> [i \in 1..Len(props) |->
               [col |-> props[i].k, ph |-> Len(values) + i]],
   values |-> values \o
     [i \in 1..Len(props) |->
        IF Attributes(m, props[i].k).type = "json"
        THEN JsonStringify(props[i].v) ELSE props[i].v]]

\* ---- criteria: undefined, a scalar, or a mapping of columns to a value
\* (a scalar, null, an array) or to an operator mapping

Criteria(t, v, entries) == [t |-> t, v |-> v, entries |-> entries]
NoCriteria == Criteria("undefined", Undefined, <<>>)
Scalar(v) == Criteria("scalar", v, <<>>)
Mapping(entries) == Criteria("map", Undefined, entries)
\* k: v  and  k: {op: v, ...}
Is(k, v) == [k |-> k, t |-> "val", v |-> v, ops |-> <<>>]
Ops(k, ops) == [k |-> k, t |-> "ops", v |-> Undefined, ops |-> ops]
Op(op, v) == [op |-> op, v |-> v]

\* one condition of a WHERE clause: form is what is written around the
\* column, ph the number n of its placeholder $n (0 when it has none)
Clause(col, form, op, ph) == [col |-> col, form |-> form, op |-> op, ph |-> ph]
\* a WHERE fragment: '' or `WHERE c1 AND c2 ...`
NoWhere == <<>>

SafeOps == {"<", ">", "<=", ">=", "!="}

\* WhereOne as it would be without lines 309-312: { '!=': [...] } compiled
\* like any other operator
WhereOneNoNotAny(e, acc) ==
  IF acc.threw THEN acc
  ELSE IF e.t = "val" /\ e.v = Null
  THEN [acc EXCEPT !.wher = Append(@, Clause(e.k, "IS NULL", "", 0))]
  ELSE IF e.t = "val" /\ IsArray(e.v)
  THEN [acc EXCEPT !.args = Append(@, e.v),
                   !.wher = Append(@, Clause(e.k, "=ANY", "", Len(acc.args) + 1))]
  ELSE IF e.t = "ops"
  THEN IF Len(e.ops) # 1 THEN [acc EXCEPT !.threw = TRUE, !.error = "TODO: "]
       ELSE LET op == e.ops[1].op
                val == e.ops[1].v
            IN IF op = "!=" /\ val = Null
               THEN [acc EXCEPT !.wher = Append(@, Clause(e.k, "IS NOT NULL", "", 0))]
               ELSE IF op \notin SafeOps
               THEN [acc EXCEPT !.args = Append(@, val), !.threw = TRUE,
                                !.error = "Unrecognised op in criteria"]
               ELSE [acc EXCEPT !.args = Append(@, val),
                                !.wher = Append(@, Clause(e.k, "op", op,
                                                          Len(acc.args) + 1))]
  ELSE [acc EXCEPT !.args = Append(@, e.v),
                   !.wher = Append(@, Clause(e.k, "=", "", Len(acc.args) + 1))]
\* buildWhereQuery, for one entry of the mapping: acc is the clauses and the
\* args so far
WhereOne(e, acc) ==
  IF acc.threw THEN acc
  ELSE IF e.t = "val" /\ e.v = Null
  THEN [acc EXCEPT !.wher = Append(@, Clause(e.k, "IS NULL", "", 0))]
  ELSE IF e.t = "val" /\ IsArray(e.v)
  THEN [acc EXCEPT !.args = Append(@, e.v),
                   !.wher = Append(@, Clause(e.k, "=ANY", "", Len(acc.args) + 1))]
  ELSE IF e.t = "ops"
  THEN IF Len(e.ops) # 1 THEN [acc EXCEPT !.threw = TRUE, !.error = "TODO: "]
       ELSE LET op == e.ops[1].op
                val == e.ops[1].v
            IN IF op = "!=" /\ val = Null
               THEN [acc EXCEPT !.wher = Append(@, Clause(e.k, "IS NOT NULL", "", 0))]
               ELSE IF op = "!=" /\ IsArray(val)
               THEN [acc EXCEPT !.args = Append(@, val),
                                !.wher = Append(@, Clause(e.k, "NOT =ANY", "",
                                                          Len(acc.args) + 1))]
               ELSE IF op \notin SafeOps
               THEN [acc EXCEPT !.args = Append(@, val), !.threw = TRUE,
                                !.error = "Unrecognised op in criteria"]
               ELSE [acc EXCEPT !.args = Append(@, val),
                                !.wher = Append(@, Clause(e.k, "op", op,
                                                          Len(acc.args) + 1))]
  ELSE [acc EXCEPT !.args = Append(@, e.v),
                   !.wher = Append(@, Clause(e.k, "=", "", Len(acc.args) + 1))]

RECURSIVE WhereFrom(_, _, _)
WhereFrom(entries, i, acc) ==
  IF i > Len(entries) THEN acc
  ELSE WhereFrom(entries, i + 1, WhereOne(entries[i], acc))

\* buildWhereQuery(criteria, args): the fragment, args as it leaves them,
\* whether it threw, and the message of the Error thrown
buildWhereQuery(criteria, values) ==
  IF criteria.t = "undefined" \/ (criteria.t = "scalar" /\ IsFalsy(criteria.v))
  THEN [threw |-> FALSE, error |-> "", wher |-> NoWhere, args |-> values]
  ELSE IF criteria.t = "map"
  THEN WhereFrom(criteria.entries, 1,
                 [threw |-> FALSE, error |-> "", wher |-> <<>>, args |-> values])
  ELSE [threw |-> FALSE, error |-> "",
        wher |-> <<Clause("id", "=", "", Len(values) + 1)>>,
        args |-> Append(values, criteria.v)]

\* getFindCriteriaFrom, for options without a select key: the options are
\* the criteria; find() and findOne() default them to {}
getFindCriteriaFrom(options) ==
  IF options.t = "undefined" THEN Mapping(<<>>) ELSE options

\* ---- the model operations: what each returns

\* a statement: its verb, the columns and placeholder tuples of an INSERT,
\* the assignments of an UPDATE, the WHERE fragment, whether the fragment
\* stands in `WHERE id = ( SELECT id FROM table <fragment> )`, and what
\* then() appended
Statement(base, cols, tuples, sets, wher, nested) ==
  [base |-> base, cols |-> cols, tuples |-> tuples, sets |-> sets,
   wher |-> wher, nested |-> nested, tail |-> <<>>]
NoStatement == Statement("", <<>>, <<>>, <<>>, NoWhere, FALSE)

\* what a model operation returned: a builder (ret = "builder"), or what it
\* returned instead, or that it threw
Returned(ret, s, values, o) ==
  [ret |-> ret, error |-> "", sql |-> s,
   args |-> [present |-> TRUE, list |-> values], opts |-> o]
NotABuilder(ret) == Returned(ret, NoStatement, <<>>, BaseOpts("native"))
\* the call threw an Error with this message
Threw(message) == [NotABuilder("threw") EXCEPT !.error = message]
sendNativeQuery(s, values, o) == Returned("builder", s, values, o)

\* the functions a returned value has: the builder's (line 53), those of
\* the object createEach([]) returns and of what its fetch() returns (lines
\* 178-185), and none for undefined or 'TODO'
Methods(r) ==
  CASE r.ret = "builder" ->
         {"usingConnection", "fetch", "intercept", "limit", "populate", "sort", "then"}
    [] r.ret = "emptyThenable" ->
         IF r.opts.fetch THEN {"usingConnection", "then"}
         ELSE {"fetch", "usingConnection"}
    [] OTHER -> {}

\* Model.create(props)
create(m, props) ==
  LET p == withDefaultValues(m, props, TRUE)
      v == buildValuesQuery(Keys(p), p, <<>>)
  IN sendNativeQuery(Statement("INSERT", Keys(p), <<v.q>>, <<>>, NoWhere, FALSE),
                     v.values, BaseOpts("create"))

\* the tuples of createEach: buildValuesQuery for each props in turn
RECURSIVE ValuesFrom(_, _, _, _)
ValuesFrom(cols, propses, i, acc) ==
  IF i > Len(propses) THEN acc
  ELSE LET v == buildValuesQuery(cols, propses[i], acc.values)
       IN ValuesFrom(cols, propses, i + 1,
                     [tuples |-> Append(acc.tuples, v.q), values |-> v.values])

\* Model.createEach(propses)
createEach(m, propses) ==
  LET ps == [i \in 1..Len(propses) |-> withDefaultValues(m, propses[i], TRUE)]
  IN IF Len(ps) = 0 THEN NotABuilder("emptyThenable")
     ELSE LET v == ValuesFrom(Keys(ps[1]), ps, 1, [tuples |-> <<>>, values |-> <<>>])
          IN sendNativeQuery(
               Statement("INSERT", Keys(ps[1]), v.tuples, <<>>, NoWhere, FALSE),
               v.values, BaseOpts("createEach"))

\* Model.find(options)
find(m, options) ==
  LET w == buildWhereQuery(getFindCriteriaFrom(options), <<>>)
  IN IF w.threw THEN Threw(w.error)
     ELSE sendNativeQuery(Statement("SELECT", <<>>, <<>>, <<>>, w.wher, FALSE),
                          w.args, BaseOpts("find"))

\* Model.findOne(options)
findOne(m, options) ==
  LET w == buildWhereQuery(getFindCriteriaFrom(options), <<>>)
  IN IF w.threw THEN Threw(w.error)
     ELSE sendNativeQuery(Statement("SELECT", <<>>, <<>>, <<>>, w.wher, TRUE),
                          w.args, BaseOpts("findOne"))

\* Model.update(criteria).set(props)
update(m, criteria, props) ==
  LET p == withDefaultValues(m, props, FALSE)
      q == buildSetQuery(m, p, <<>>)
      w == buildWhereQuery(criteria, q.values)
  IN IF q.sets = <<>> THEN NotABuilder("TODO")
     ELSE IF w.threw THEN Threw(w.error)
     ELSE sendNativeQuery(Statement("UPDATE", <<>>, <<>>, q.sets, w.wher, FALSE),
                          w.args, BaseOpts("update"))

\* Model.updateOne(criteria).set(props)
updateOne(m, criteria, props) ==
  LET p == withDefaultValues(m, props, FALSE)
      q == buildSetQuery(m, p, <<>>)
      w == buildWhereQuery(criteria, q.values)
  IN IF q.sets = <<>> THEN NotABuilder("TODO")
     ELSE IF w.threw THEN Threw(w.error)
     ELSE sendNativeQuery(Statement("UPDATE", <<>>, <<>>, q.sets, w.wher, TRUE),
                          w.args, BaseOpts("updateOne"))

-----------------------------------------------------------------------------
(* Storage: the table of model M, and what a statement does to it *)

\* a value as it is stored: pg sends undefined as NULL
Stored(v) == IF v = Undefined THEN Null ELSE v

\* whether row satisfies one condition; a comparison with NULL is not true
ClauseHolds(row, cl, argl) ==
  LET v == row[cl.col]
      a == IF cl.ph = 0 THEN Null ELSE Stored(argl[cl.ph])
  IN CASE cl.form = "IS NULL" -> v = Null
       [] cl.form = "IS NOT NULL" -> v # Null
       [] cl.form = "=ANY" -> v # Null /\ v \in Elements(a)
       [] cl.form = "NOT =ANY" -> v # Null /\ v \notin Elements(a)
       [] cl.form = "=" -> v # Null /\ a # Null /\ v = a
       [] cl.form = "op" ->
            /\ v # Null /\ a # Null
            /\ CASE cl.op = "<" -> v < a
                 [] cl.op = ">" -> v > a
                 [] cl.op = "<=" -> v <= a
                 [] cl.op = ">=" -> v >= a
                 [] cl.op = "!=" -> v # a

\* the positions of the rows a WHERE fragment selects
Satisfying(rows, wher, argl) ==
  {i \in 1..Len(rows) : \A j \in 1..Len(wher) : ClauseHolds(rows[i], wher[j], argl)}

\* the positions a statement targets; `WHERE id = ( SELECT id ... )` fails
\* with 21000 when the subquery returns more than one row
Targets(rows, s, argl) ==
  LET inner == Satisfying(rows, s.wher, argl)
  IN IF ~s.nested THEN [code |-> 0, at |-> inner]
     ELSE IF Cardinality(inner) > 1 THEN [code |-> 21000, at |-> {}]
     ELSE IF inner = {} THEN [code |-> 0, at |-> {}]
     ELSE LET id == rows[CHOOSE i \in inner : TRUE].id
          IN [code |-> 0,
              at |-> {i \in 1..Len(rows) : id # Null /\ rows[i].id = id}]

\* the elements of seq at the positions in at, in order
RECURSIVE Pick(_, _, _)
Pick(seq, at, i) ==
  IF i > Len(seq) THEN <<>>
  ELSE (IF i \in at THEN <<seq[i]>> ELSE <<>>) \o Pick(seq, at, i + 1)

\* the rows an INSERT adds: a column that is not listed takes its default,
\* which for id is the next value of the sequence
Inserted(m, s, argl, nid) ==
  [j \in 1..Len(s.tuples) |->
     [c \in Columns(m) |->
        IF \E k \in 1..Len(s.cols) : s.cols[k] = c
        THEN Stored(argl[s.tuples[j][CHOOSE k \in 1..Len(s.cols) : s.cols[k] = c]])
        ELSE IF c = "id" THEN nid + j - 1 ELSE Null]]

\* a row as the driver reports it: a BIGINT comes back as a string
Reported(row) ==
  [c \in DOMAIN row |->
     IF c \in BigintColumns /\ row[c] # Null THEN BigintString(row[c]) ELSE row[c]]

Outcome(code, rows, rowCount, table, nid) ==
  [code |-> code, rows |-> [i \in 1..Len(rows) |-> Reported(rows[i])],
   rowCount |-> rowCount, db |-> table, nextId |-> nid]

\* client.query(sql, args) against the table
Exec(m, s, argl, table, nid) ==
  IF ~WellFormed(s) THEN Outcome(42601, <<>>, 0, table, nid)
  ELSE IF s.base = "INSERT"
  THEN LET new == Inserted(m, s, argl, nid)
           serial == ~\E k \in 1..Len(s.cols) : s.cols[k] = "id"
       IN IF \E j \in 1..Len(new) : new[j].id = Null
          THEN Outcome(23502, <<>>, 0, table, nid)
          ELSE Outcome(0, IF ReturnsRows(s) THEN new ELSE <<>>, Len(new),
                       table \o new, IF serial THEN nid + Len(new) ELSE nid)
  ELSE LET t == Targets(table, s, argl)
       IN IF t.code # 0 THEN Outcome(t.code, <<>>, 0, table, nid)
          ELSE IF s.base = "SELECT"
          THEN Outcome(0, Pick(table, t.at, 1), Cardinality(t.at), table, nid)
          ELSE LET after ==
                     [i \in 1..Len(table) |->
                        IF i \notin t.at THEN table[i]
                        ELSE [c \in Columns(m) |->
                                IF \E k \in 1..Len(s.sets) : s.sets[k].col = c
                                THEN Stored(argl[s.sets[
                                       CHOOSE k \in 1..Len(s.sets) :
                                         s.sets[k].col = c
                                         /\ \A k2 \in 1..Len(s.sets) :
                                              s.sets[k2].col = c => k2 <= k].ph])
                                ELSE table[i][c]]]
               IN Outcome(0, IF ReturnsRows(s) THEN Pick(after, t.at, 1) ELSE <<>>,
                          Cardinality(t.at), after, nid)

\* ---- shaping the result

withTimestampsCast(row) ==
  [c \in DOMAIN row |->
     IF c \in {"created_at", "updated_at"} /\ ~IsFalsy(row[c])
     THEN Number(row[c]) ELSE row[c]]

withSelectedValuesCast(m, row) ==
  LET r == withTimestampsCast(row)
  IN [c \in DOMAIN r |->
        IF r[c] \in {Undefined, Null} /\ ~Attributes(m, c).allowNull
           /\ ZeroValue(Attributes(m, c).type) # Undefined
        THEN ZeroValue(Attributes(m, c).type) ELSE r[c]]

\* what a settled builder hands to its caller: one row, undefined, a list
\* of rows, the driver's result, or an error. After populate, pop[i] is what
\* the populated attribute of rows[i] was set to, <<>> for undefined or one
\* record; rows[i] keeps the foreign key the attribute held
Value(k, rows, n) == [k |-> k, rows |-> rows, n |-> n, pop |-> <<>>]
NoValue == Value("none", <<>>, 0)

\* then(), lines 110-138: the value resolved from the driver's result
Shape(m, o, result) ==
  IF o.returnSingleRow \/ (o.fetch /\ o.single)
  THEN IF Len(result.rows) = 0 THEN Value("undefined", <<>>, 0)
       ELSE Value("row", <<withSelectedValuesCast(m, result.rows[1])>>, 0)
  ELSE IF o.returnRows \/ o.fetch
  THEN Value("rows",
             [i \in 1..Len(result.rows) |-> withSelectedValuesCast(m, result.rows[i])],
             0)
  ELSE Value("result", result.rows, result.rowCount)

\* ---- populate, then() lines 114-119 and 125-133

\* a follow-up statement: SELECT * FROM <table of the populated model> with
\* the condition form, and the one bound argument (a list of keys)
Followup(form, keys) == [form |-> form, keys |-> keys]

\* the rows the follow-up statement returns from the related table: a
\* comparison with NULL is not true
Lookup(related, keys) ==
  SelectSeq(related, LAMBDA r : r.id # Null /\ \E i \in 1..Len(keys) : keys[i] = r.id)

\* withSelectedValuesCast(populateModel, rows.find(({ id }) => fk === id)):
\* <<>> for undefined, or the first row with that id
Found(pm, rows, fk) ==
  LET hits == SelectSeq(rows, LAMBDA r : r.id = fk)
  IN IF hits = <<>> THEN <<>> ELSE <<withSelectedValuesCast(pm, hits[1])>>

\* opts.Model.attributes[opts.populate].model names a model
HasPopulateModel(m, attr) ==
  attr \in Columns(m) /\ Attributes(m, attr).model # ""

Populated(threw, followups, val) ==
  [threw |-> threw, followups |-> followups, val |-> val]

\* as PopulateRows, but asking only for the distinct keys that are not null
PopulateRowsDistinctNonNull(pm, attr, v, related) ==
  LET all == [i \in 1..Len(v.rows) |-> v.rows[i][attr]]
      keys == SelectSeq([i \in 1..Len(all) |->
                           IF all[i] = Null \/ \E j \in 1..(i - 1) : all[j] = all[i]
                           THEN Undefined ELSE all[i]],
                        LAMBDA k : k # Undefined)
      rows == Lookup(related, keys)
  IN Populated(FALSE, <<Followup("id=ANY($1)", keys)>>,
               [v EXCEPT !.pop = [i \in 1..Len(v.rows) |->
                                    Found(pm, rows, v.rows[i][attr])]])

\* lines 126-132: one lookup for the keys of all rows, then each row takes
\* the first related row whose id is its key
PopulateRows(pm, attr, v, related) ==
  LET populateIds == [i \in 1..Len(v.rows) |-> v.rows[i][attr]]
      rows == Lookup(related, populateIds)
  IN Populated(FALSE, <<Followup("id=ANY($1)", populateIds)>>,
               [v EXCEPT !.pop = [i \in 1..Len(v.rows) |->
                                    Found(pm, rows, v.rows[i][attr])]])

\* lines 115-118: ret[opts.populate] is evaluated before the lookup is sent,
\* and throws when ret is undefined
PopulateRow(pm, attr, v, related) ==
  IF v.k = "undefined" THEN Populated(TRUE, <<>>, v)
  ELSE LET fk == v.rows[1][attr]
           rows == Lookup(related, <<fk>>)
       IN Populated(FALSE, <<Followup("id=$1", <<fk>>)>>,
                    [v EXCEPT !.pop = <<IF rows = <<>> THEN <<>>
                                        ELSE <<withSelectedValuesCast(pm, rows[1])>> >>])

\* then(), lines 111-138, after the primary statement gave v
Populate(m, o, v, related) ==
  IF o.populate = "" \/ v.k = "result" THEN Populated(FALSE, <<>>, v)
  ELSE IF ~HasPopulateModel(m, o.populate) THEN Populated(TRUE, <<>>, v)
  ELSE IF v.k = "rows"
  THEN PopulateRows(Attributes(m, o.populate).model, o.populate, v, related)
  ELSE PopulateRow(Attributes(m, o.populate).model, o.populate, v, related)

-----------------------------------------------------------------------------
(* The model operations as steps: a call on model M returns a value that
   is kept in pb; forcing it runs then() against the table db *)

\* what values the calls are made with
PropsInputs == {<<>>, <<Entry("name", Alice)>>}
PropsesInputs == {<<>>, << <<Entry("name", Alice)>>, <<Entry("name", Bob)>> >>}
SetInputs == {<<>>, <<Entry("name", Bob)>>}
CriteriaInputs ==
  {NoCriteria, Scalar(0), Scalar(1), Mapping(<<Is("name", Alice)>>),
   Mapping(<<Ops("id", <<Op(">", 0), Op("<", 2)>>)>>)}

DestroyInputs == {NoCriteria, Mapping(<<>>), Mapping(<<Is("name", Alice)>>)}

\* the value a call returned, with the call it came from
Pending(r, op, crit, propses) ==
  [ret |-> r.ret, error |-> r.error, sql |-> r.sql, args |-> r.args,
   opts |-> r.opts, op |-> op, crit |-> crit, propses |-> propses]
NoPending == Pending(NotABuilder("none"), "none", NoCriteria, <<>>)

\* the record of the latest force: the call, the table before and after,
\* args before then() and as sent, the clock when then() ran, the attribute
\* to populate and the follow-up statements sent for it, the outcome
NoLast ==
  [op |-> "none", crit |-> NoCriteria, propses |-> <<>>, fetch |-> FALSE,
   before |-> <<>>, after |-> <<>>, args0 |-> <<>>, sent |-> FALSE,
   sentSql |-> NoStatement, sentArgs |-> <<>>, at |-> 0,
   populate |-> "", followups |-> <<>>,
   outcome |-> "none", code |-> 0, val |-> NoValue]

ModelIdle ==
  /\ M = "Simple" /\ db = <<>> /\ rel = <<>> /\ nextId = 1
  /\ pb = NoPending /\ last = NoLast /\ ap = NoCall

\* the calls; one is made when the value of the call before it has been
\* forced or awaited, or that call threw

Model_create(props) ==
  /\ pb.ret \in {"none", "threw"}
  /\ pb' = Pending(create(M, props), "create", NoCriteria, <<props>>)
  /\ last' = NoLast
  /\ UNCHANGED <<M, db, rel, ap, nextId, bvars, tx>>

Model_createEach(propses) ==
  /\ pb.ret \in {"none", "threw"}
  /\ pb' = Pending(createEach(M, propses), "createEach", NoCriteria, propses)
  /\ last' = NoLast
  /\ UNCHANGED <<M, db, rel, ap, nextId, bvars, tx>>

Model_find(options) ==
  /\ pb.ret \in {"none", "threw"}
  /\ pb' = Pending(find(M, options), "find", options, <<>>)
  /\ last' = NoLast
  /\ UNCHANGED <<M, db, rel, ap, nextId, bvars, tx>>

Model_findOne(options) ==
  /\ pb.ret \in {"none", "threw"}
  /\ pb' = Pending(findOne(M, options), "findOne", options, <<>>)
  /\ last' = NoLast
  /\ UNCHANGED <<M, db, rel, ap, nextId, bvars, tx>>

Model_update(criteria, props) ==
  /\ pb.ret \in {"none", "threw"}
  /\ pb' = Pending(update(M, criteria, props), "update", criteria, <<props>>)
  /\ last' = NoLast
  /\ UNCHANGED <<M, db, rel, ap, nextId, bvars, tx>>

Model_updateOne(criteria, props) ==
  /\ pb.ret \in {"none", "threw"}
  /\ pb' = Pending(updateOne(M, criteria, props), "updateOne", criteria, <<props>>)
  /\ last' = NoLast
  /\ UNCHANGED <<M, db, rel, ap, nextId, bvars, tx>>

\* Model.destroy(criteria) and Model.destroyOne(criteria): `() => {}`, the
\* criteria are not read and undefined is returned
Model_destroy(criteria) ==
  /\ pb.ret \in {"none", "threw"}
  /\ pb' = Pending(NotABuilder("undefined"), "destroy", criteria, <<>>)
  /\ last' = NoLast
  /\ UNCHANGED <<M, db, rel, ap, nextId, bvars, tx>>

Model_destroyOne(criteria) ==
  /\ pb.ret \in {"none", "threw"}
  /\ pb' = Pending(NotABuilder("undefined"), "destroyOne", criteria, <<>>)
  /\ last' = NoLast
  /\ UNCHANGED <<M, db, rel, ap, nextId, bvars, tx>>

\* .fetch() on what a call returned: the modifier of a builder; the stub of
\* createEach([]); a TypeError on the string 'TODO'
Builder_fetch ==
  /\ pb.ret \in {"builder", "emptyThenable", "TODO"}
  /\ ~pb.opts.fetch
  /\ pb' = IF pb.ret = "TODO"
           THEN [pb EXCEPT !.ret = "threw", !.error = "fetch is not a function"]
           ELSE [pb EXCEPT !.opts.fetch = TRUE]
  /\ UNCHANGED <<M, db, rel, ap, nextId, last, bvars, tx>>

\* .populate(prop) on the pending builder
Builder_populate(prop) ==
  /\ pb.ret = "builder"
  /\ pb.opts.populate = ""
  /\ pb' = [pb EXCEPT !.opts.populate = prop]
  /\ UNCHANGED <<M, db, rel, ap, nextId, last, bvars, tx>>

\* a row of WithRelationship put into the table beside the library, as the
\* tests do: my_simple is any key or NULL
RawInsertOwner(fk) ==
  /\ M = "WithRelationship"
  /\ Len(db) < MaxTableRows
  /\ db' = Append(db, [id |-> nextId, name |-> Alice, my_simple |-> fk])
  /\ nextId' = nextId + 1
  /\ last' = NoLast
  /\ UNCHANGED <<M, rel, ap, pb, bvars, tx>>

\* a row put into the table beside the library, as the tests do
RawInsert(name) ==
  /\ Len(db) < MaxTableRows
  /\ db' = Append(db, [c \in Columns(M) |->
                         IF c = "id" THEN nextId
                         ELSE IF c = "name" THEN name ELSE Null])
  /\ nextId' = nextId + 1
  /\ last' = NoLast
  /\ UNCHANGED <<M, rel, ap, pb, bvars, tx>>

\* Date.now() advances; the record of the latest force describes the step
\* before, and is dropped
Tick ==
  /\ now < MaxClock
  /\ now' = now + 1
  /\ last' = NoLast
  /\ UNCHANGED <<opts, sql, args, mods, frc, tx, M, db, rel, nextId, pb, ap>>

\* then() on the builder in pb, with pool.connect() and the statement both
\* completing: lines 93-104, the query, lines 110-150
Builder_then ==
  /\ pb.ret = "builder"
  /\ pb.sql.base = "INSERT" => Len(db) + Len(pb.sql.tuples) <= MaxTableRows
  /\ LET p == ThenPrepare(pb.opts, pb.sql, pb.args, now)
         x == Exec(M, p.sql, p.args.list, db, nextId)
         q == Populate(M, pb.opts, Shape(M, pb.opts, x), rel)
         l == [NoLast EXCEPT !.op = pb.op, !.crit = pb.crit,
                             !.propses = pb.propses, !.fetch = pb.opts.fetch,
                             !.populate = pb.opts.populate,
                             !.before = db, !.args0 = pb.args.list, !.at = now]
     IN IF p.threw
        THEN /\ last' = [l EXCEPT !.after = db, !.outcome = "pending"]
             /\ UNCHANGED <<db, nextId>>
        ELSE /\ db' = x.db
             /\ nextId' = x.nextId
             /\ last' = [l EXCEPT
                  !.after = x.db, !.sent = TRUE,
                  !.sentSql = p.sql, !.sentArgs = p.args.list,
                  !.followups = IF x.code = 0 THEN q.followups ELSE <<>>,
                  !.outcome = IF x.code = 0 /\ ~q.threw
                              THEN "resolved" ELSE "rejected",
                  !.code = x.code,
                  !.val = IF x.code # 0 THEN Value("error", <<>>, 0)
                          ELSE IF q.threw THEN Value("TypeError", <<>>, 0)
                          ELSE q.val]
  /\ pb' = NoPending
  /\ UNCHANGED <<M, rel, ap, bvars, tx>>

\* then() of the stub that createEach([]).fetch() returns
Stub_then ==
  /\ pb.ret = "emptyThenable" /\ pb.opts.fetch
  /\ last' = [NoLast EXCEPT !.op = pb.op, !.fetch = TRUE, !.before = db,
                            !.after = db, !.at = now, !.outcome = "resolved",
                            !.val = Value("rows", <<>>, 0)]
  /\ pb' = NoPending
  /\ UNCHANGED <<M, db, rel, ap, nextId, bvars, tx>>

\* await of a returned value that has no then: undefined, or 'TODO'
Await_value ==
  /\ pb.ret \in {"undefined", "TODO"}
  /\ last' = [NoLast EXCEPT !.op = pb.op, !.crit = pb.crit,
                            !.propses = pb.propses, !.before = db,
                            !.after = db, !.at = now, !.outcome = "resolved",
                            !.val = Value(pb.ret, <<>>, 0)]
  /\ pb' = NoPending
  /\ UNCHANGED <<M, db, rel, ap, nextId, bvars, tx>>

\* ---- the registry functions as steps

\* attribute definitions of every type, with and without allowNull, a
\* default (a string or an object) and an automatic timestamp
DefaultObject == ObjectBase
Cfgs ==
  {[type |-> t, allowNull |-> n, defaultsTo |-> d, autoIncrement |-> FALSE,
    autoCreatedAt |-> auto = "created", autoUpdatedAt |-> auto = "updated",
    model |-> IF t = "" THEN "Simple" ELSE ""] :
     t \in {"string", "number", "boolean", "json", "ref", ""},
     n \in BOOLEAN, d \in {Undefined, SomeValue, DefaultObject},
     auto \in {"none", "created", "updated"}}
\* property maps for a model with the attributes a and b: each key absent,
\* null (a only) or given
DefaultsProps ==
  {pa \o pb0 : pa \in {<<>>, <<Entry("a", Null)>>, <<Entry("a", Alice)>>},
               pb0 \in {<<>>, <<Entry("b", Bob)>>}}

\* withDefaultValues(Model, props, { creating }) on a model with the
\* attributes a, of any definition, and b, a string
Defaults_call ==
  /\ ap = NoCall
  /\ \E cfg \in Cfgs, props \in DefaultsProps, creating \in BOOLEAN :
       LET attributes == <<Entry("a", cfg),
                           Entry("b", AttrDef("string", FALSE, FALSE, FALSE))>>
       IN ap' = [f |-> "withDefaultValues", attributes |-> attributes,
                 props |-> props, creating |-> creating,
                 out |-> DefaultFrom(attributes, props, creating, 1)]
  /\ UNCHANGED <<M, db, rel, nextId, pb, last, bvars, tx>>

\* String.prototype.toLowerCase on the model names in use
toLowerCase(name) ==
  CASE name = "Thing" -> "thing"
    [] name = "Simple" -> "simple"
    [] OTHER -> name

\* { ...a, ...b }: the entries of a, those of b replacing or following them
RECURSIVE Spread(_, _)
Spread(a, b) ==
  IF b = <<>> THEN a ELSE Spread(Put(a, b[1].k, b[1].v), Tail(b))

\* initialiseModel(name, Model), lines 159-162: the fields it assigns to
\* Model, beside the operations
initialiseModel(name, Model, defaultAttributes) ==
  [globalId |-> name, tableName |-> toLowerCase(name),
   attributes |-> Spread(defaultAttributes, Model.attributes)]

\* module.exports(pool, models, defaultAttributes) with one model under
\* name: both arguments are cloned before use, so the caller's objects are
\* as they were; the registry holds the initialised clone
exports(name, Model, defaultAttributes) ==
  [f |-> "exports", name |-> name, Model |-> Model,
   defaultAttributes |-> defaultAttributes,
   models |-> initialiseModel(name, Model, defaultAttributes),
   ModelAfter |-> Model, defaultAttributesAfter |-> defaultAttributes]

\* the definitions a caller supplies: the models Thing and Simple of the
\* tests, and default attributes that are new to the model or clash with it
SuppliedNames == {"Thing", "Simple"}
SuppliedAttributes ==
  {<<>>, <<Entry("id", AttrDef("number", TRUE, FALSE, FALSE))>>,
   <<Entry("id", AttrDef("number", TRUE, FALSE, FALSE)),
     Entry("name", AttrDef("string", FALSE, FALSE, FALSE))>>}
SuppliedDefaults ==
  {<<>>, <<Entry("created_at", AttrDef("number", FALSE, TRUE, FALSE))>>,
   <<Entry("id", AttrDef("string", FALSE, FALSE, FALSE)),
     Entry("created_at", AttrDef("number", FALSE, TRUE, FALSE))>>}

Exports_call ==
  /\ ap = NoCall
  /\ \E name \in SuppliedNames, attributes \in SuppliedAttributes,
        defaultAttributes \in SuppliedDefaults :
       ap' = exports(name, [attributes |-> attributes], defaultAttributes)
  /\ UNCHANGED <<M, db, rel, nextId, pb, last, bvars, tx>>

\* criteria mappings of up to MaxEntries entries: per column a scalar, null,
\* an array, or an operator mapping with no, one or two operators, one of
\* them unknown to safeOp
EntryInputs ==
  UNION {
    {Is(k, v) : v \in {1, Null, ArrayBase + 1}}
    \cup {Ops(k, <<Op(op, v)>>) : op \in {"!=", "<", "~"}, v \in {1, Null, ArrayBase + 1}}
    \cup {Ops(k, <<>>), Ops(k, <<Op(">", 0), Op("<", 2)>>)}
    : k \in {"id", "name"}}
WhereInputs ==
  {NoCriteria} \cup {Mapping(es) : es \in UNION {[1..n -> EntryInputs] : n \in 0..MaxEntries}}

\* find or update called once with one of them, and the builder forced
Where_find ==
  /\ last = NoLast /\ pb = NoPending
  /\ \E options \in WhereInputs : Model_find(options)

Where_update ==
  /\ last = NoLast /\ pb = NoPending
  /\ \E criteria \in WhereInputs : Model_update(criteria, <<Entry("name", Bob)>>)

\* findOne or updateOne called once with one of them or with an id
Where_findOne ==
  /\ last = NoLast /\ pb = NoPending
  /\ \E options \in WhereInputs \cup {Scalar(1)} : Model_findOne(options)

Where_updateOne ==
  /\ last = NoLast /\ pb = NoPending
  /\ \E criteria \in WhereInputs \cup {Scalar(1)} :
       Model_updateOne(criteria, <<Entry("name", Bob)>>)

\* every operation that compiles a statement, called once
NextCompile ==
  \/ Where_find
  \/ Where_findOne
  \/ Where_update
  \/ Where_updateOne
  \/ \E props \in PropsInputs : Model_create(props)
  \/ \E propses \in PropsesInputs : Model_createEach(propses)

NextWhere ==
  \/ Where_find
  \/ Where_update
  \/ Builder_then

\* the rows of Simple the tests insert, and the keys an owner may hold: of
\* those rows, of no row, or none
SimpleRows == <<[id |-> 1, name |-> Alice], [id |-> 2, name |-> Bob]>>
OwnerKeys == {Null, 1, 2, 3}
PopulateCriteria == {NoCriteria, Scalar(1), Scalar(2)}

NextPopulate ==
  \/ \E fk \in OwnerKeys : RawInsertOwner(fk)
  \/ \E options \in PopulateCriteria : Model_find(options)
  \/ \E options \in PopulateCriteria : Model_findOne(options)
  \/ \E prop \in PopulateInputs : Builder_populate(prop)
  \/ Builder_then

\* destroy and destroyOne beside rows the tests insert
NextDestroy ==
  \/ \E criteria \in DestroyInputs : Model_destroy(criteria)
  \/ \E criteria \in DestroyInputs : Model_destroyOne(criteria)
  \/ Await_value
  \/ \E name \in {Alice, Bob} : RawInsert(name)

NextModel ==
  \/ \E props \in PropsInputs : Model_create(props)
  \/ \E propses \in PropsesInputs : Model_createEach(propses)
  \/ \E options \in CriteriaInputs : Model_find(options)
  \/ \E options \in CriteriaInputs : Model_findOne(options)
  \/ \E criteria \in CriteriaInputs, props \in SetInputs : Model_update(criteria, props)
  \/ \E criteria \in CriteriaInputs, props \in SetInputs :
       Model_updateOne(criteria, props)
  \/ Builder_fetch
  \/ \E name \in {Alice} : RawInsert(name)
  \/ Tick
  \/ Builder_then
  \/ Stub_then

-----------------------------------------------------------------------------
(* Specifications *)

\* no transaction running
TxIdle == <<>>
\* no builder in use
BuilderIdle ==
  /\ opts = BaseOpts("native")
  /\ sql = BaseSql("native")
  /\ args = BaseArgs("native")
  /\ now = 1
  /\ mods = NoCalls
  /\ frc = <<>>

\* a builder forced up to MaxForces times
Init == BuilderInit(MaxForces) /\ tx = TxIdle /\ ModelIdle
Spec == Init /\ [][Next]_vars

\* a builder forced once more than that
InitReforce == BuilderInit(MaxForces + 1) /\ tx = TxIdle /\ ModelIdle
SpecReforce == InitReforce /\ [][Next]_vars


\* MaxTx concurrent calls of transaction(fn), each with its own client
InitTx == BuilderIdle /\ tx = [t \in 1..MaxTx |-> NewTx] /\ ModelIdle
SpecTx == InitTx /\ [][NextTx]_vars

\* calls on one model, its table empty at first
InitModel ==
  /\ BuilderIdle /\ tx = TxIdle
  /\ M \in ModelNames /\ db = <<>> /\ rel = <<>> /\ nextId = 1
  /\ pb = NoPending /\ last = NoLast /\ ap = NoCall
SpecModel == InitModel /\ [][NextModel]_vars

\* the same calls on the model that has auto-timestamp attributes
InitAudited == InitModel /\ M = "Audited"
SpecAudited == InitAudited /\ [][NextModel]_vars

\* the statements the model operations compile, on every mapping of
\* WhereInputs
SpecCompile == InitModel /\ [][NextCompile]_vars

\* the functions of the registry, on every input above
NextRegistry == Defaults_call \/ Exports_call
SpecRegistry == InitModel /\ [][NextRegistry]_vars

\* destroy and destroyOne on a table of up to MaxTableRows rows
SpecDestroy == InitModel /\ [][NextDestroy]_vars

\* the compiler of criteria, on every mapping of WhereInputs
SpecWhere == InitModel /\ [][NextWhere]_vars

\* find and findOne with populate on WithRelationship, beside a table of
\* Simple that holds none, one or two of the rows the tests insert
InitPopulate ==
  /\ BuilderIdle /\ tx = TxIdle
  /\ M = "WithRelationship" /\ db = <<>> /\ nextId = 1
  /\ rel \in {SubSeq(SimpleRows, 1, n) : n \in 0..Len(SimpleRows)}
  /\ pb = NoPending /\ last = NoLast /\ ap = NoCall
SpecPopulate == InitPopulate /\ [][NextPopulate]_vars

-----------------------------------------------------------------------------
(* Claims about the builder *)

\* the calls of then() that have returned or thrown
Ended(f) == frc[f].pc \in {"done", "threw"}

\* C1: over its whole lifetime a builder sends at most one statement to its
\* primary table; forcing it a second time does not send the statement again.
C1_PrimarySentAtMostOnce ==
  /\ \A f \in Forces : frc[f].primary <= 1
  /\ Cardinality({f \in Forces : frc[f].primary > 0}) <= 1

\* C2: every force settles: when then() has ended, exactly one of resolve and
\* reject has been called, exactly once.
C2_EveryForceSettlesOnce ==
  \A f \in Forces : Ended(f) => frc[f].resolves + frc[f].rejects = 1

\* C3: a force made with no bound connection whose pool lease succeeded has,
\* when it ends, released the leased connection exactly once.
C3_LeasedReleasedOnce ==
  \A f \in Forces :
    (Ended(f) /\ frc[f].connects = 1 /\ frc[f].client # NoConn)
      => frc[f].released = <<frc[f].client>>

C15_RejectsByHandler ==
  \A f \in Forces :
    (frc[f].caught # NoVal /\ frc[f].intercepter # "fnThrows") =>
      /\ frc[f].pc = "done" /\ frc[f].rejects = 1 /\ frc[f].resolves = 0
      /\ frc[f].val =
           CASE frc[f].intercepter = "none" -> frc[f].caught
             [] frc[f].intercepter = "fn" -> Val("HandlerResult", frc[f].caught.code)
             [] frc[f].intercepter = "str" -> Val("HandlerString", 0)
             [] frc[f].intercepter = "num" -> Val("HandlerNumber", 0)
      /\ frc[f].caught.code # 23505 => frc[f].val = frc[f].caught

\* C16: intercept with a kind that is not E_UNIQUE registers nothing, so as
\* long as E_UNIQUE was not given every failure is rejected with the error
\* itself; E_UNIQUE registers its handler for 23505 and for no other code.
C16_UnknownKindRegistersNothing ==
  /\ \A c \in AllCodes \ {23505} : opts.intercepters[c] = "none"
  /\ opts.intercepters[23505] # "none" <=> Called("intercept", "E_UNIQUE") \in mods.calls
  /\ Called("intercept", "E_UNIQUE") \notin mods.calls =>
       \A f \in Forces :
         frc[f].caught # NoVal =>
           (frc[f].rejects = 1 /\ frc[f].val = frc[f].caught)

\* C16's case: after intercept('E_INVALID', handler) a force failed with
\* 23505 and was rejected
C16_Witness ==
  /\ Called("intercept", "E_INVALID") \in mods.calls
  /\ \E f \in Forces : frc[f].caught = Val("StorageError", 23505) /\ frc[f].rejects = 1

\* C17: the builder's limit, when set, is a non-negative integer: limit(n)
\* with any other n throws and leaves it as it was, and no statement with a
\* negative LIMIT is sent.
C17_LimitNonNegative ==
  /\ opts.limit # NoLimit => (opts.limit.t = "int" /\ opts.limit.v >= 0)
  /\ \A f \in Forces : \A i \in 1..Len(frc[f].sentSql.tail) :
       frc[f].sentSql.tail[i].kw = "LIMIT" => frc[f].sentSql.tail[i].n >= 0

\* C18: a force that meets a sort spec buildOrderByQuery refuses delivers the
\* failure to its caller, leases no connection and sends no statement.
C18_BadSortIsDelivered ==
  \A f \in Forces :
    frc[f].thrown = Val("OrderByError", 0) =>
      /\ frc[f].rejects = 1
      /\ frc[f].connects = 0 /\ frc[f].primary = 0

\* the kind of value a force resolves with under opts o: lines 111-138
ResolvesWith(o) ==
  IF o.returnSingleRow \/ (o.fetch /\ o.single) THEN "row"
  ELSE IF o.returnRows \/ o.fetch THEN "rows"
  ELSE "result"

\* the calls of then() that are waiting for the pool or for storage
InFlight(f) == frc[f].pc \in {"connecting", "primary", "populating"}

\* C28: a modifier called after the builder has been forced changes nothing
\* of that execution: while a call of then() is waiting, no call on the
\* builder changes the statement it sends, the shape of the result it
\* resolves with, the population it performs, the handler its catch block
\* applies to a failure, or what its finally block releases.
C28_ModifiersAfterForceChangeNothing ==
  [][\A f \in Forces :
       (InFlight(f) /\ frc'[f] = frc[f]) =>
         /\ frc[f].pc = "connecting" => (sql' = sql /\ args' = args)
         /\ ResolvesWith(opts') = ResolvesWith(opts)
         /\ frc[f].pc # "populating" => opts'.populate = opts.populate
         /\ \A code \in AllCodes :
              Catch(frc[f], Val("StorageError", code), opts').intercepter
                = Catch(frc[f], Val("StorageError", code), opts).intercepter
         /\ Finally(frc[f], opts').released = Finally(frc[f], opts).released
    ]_vars

-----------------------------------------------------------------------------
(* Claims about the transaction runner *)

\* the places of event e in the log of transaction t
Places(t, e) == {i \in 1..Len(tx[t].log) : tx[t].log[i] = e}
Happened(t, e) == Places(t, e) # {}

\* C5: whenever the connection was acquired it is released exactly once,
\* whatever the outcome, and only after the last BEGIN, COMMIT or ROLLBACK of
\* the runner: release is the last event of an ended call and is in the log
\* of no call still running.
C5_TxReleasesOnceAtEnd ==
  \A t \in Txs :
    /\ Cardinality(Places(t, "release")) <= 1
    /\ tx[t].pc # "ended" => ~Happened(t, "release")
    /\ (tx[t].pc = "ended" /\ tx[t].log # <<>>) =>
         /\ Cardinality(Places(t, "release")) = 1
         /\ tx[t].log[Len(tx[t].log)] = "release"

\* C5's case: a call whose ROLLBACK itself failed has ended, another whose
\* COMMIT failed has ended
C5_Witness ==
  \E t, u \in Txs :
    /\ tx[t].pc = "ended" /\ Happened(t, "ROLLBACK failed")
    /\ tx[u].pc = "ended" /\ Happened(u, "COMMIT failed")

\* C6: on the success path the runner does BEGIN, fn(client), COMMIT in this
\* order and nothing else but the release, and resolves to the value fn
\* returned; on every path fn is invoked right after BEGIN completed and
\* COMMIT is issued right after fn completed.
C6_TxSuccessPath ==
  \A t \in Txs :
    /\ (Happened(t, "fn ok") /\ Happened(t, "COMMIT ok")) =>
         /\ tx[t].log = <<"BEGIN", "BEGIN ok", "fn", "fn ok",
                          "COMMIT", "COMMIT ok", "release">>
         /\ tx[t].outcome = "resolved"
         /\ tx[t].val = Result(tx[t].res)
    /\ \A i \in Places(t, "fn") : i > 1 /\ tx[t].log[i - 1] = "BEGIN ok"
    /\ \A i \in Places(t, "COMMIT") : i > 1 /\ tx[t].log[i - 1] = "fn ok"

\* C6's case: a call has resolved to a value of fn that is not undefined
C6_Witness ==
  \E t \in Txs : tx[t].outcome = "resolved" /\ tx[t].val = Result(SomeValue)

\* C7: when fn fails, ROLLBACK is attempted exactly once, COMMIT is never
\* issued, and the call rejects with the error fn raised, whether or not the
\* ROLLBACK succeeds.
C7_TxRethrowsOriginalError ==
  \A t \in Txs :
    (tx[t].pc = "ended" /\ tx[t].fnErr # NoVal) =>
      /\ Cardinality(Places(t, "ROLLBACK")) = 1
      /\ ~Happened(t, "COMMIT")
      /\ tx[t].outcome = "rejected"
      /\ tx[t].val = tx[t].fnErr

-----------------------------------------------------------------------------
(* Claims about the model operations *)

\* the rows the latest force added to the table
Written == SubSeq(last.after, Len(last.before) + 1, Len(last.after))
\* the auto-timestamp columns of model m
AutoTimestamps(m) ==
  {c \in Columns(m) : Attributes(m, c).autoCreatedAt \/ Attributes(m, c).autoUpdatedAt}
\* the positions of the NOW markers in a list
Markers(list) == {i \in 1..Len(list) : list[i] = NOW}

\* C8: the statement a force sends carries no NOW marker: every marker of the
\* argument list is replaced by the clock value read at that force and every
\* other argument is sent as it was, so all auto-timestamp columns of all rows
\* one create/createEach writes hold that one value.
C8_MarkersResolvedAtForce ==
  last.sent =>
    /\ Markers(last.sentArgs) = {}
    /\ Len(last.sentArgs) = Len(last.args0)
    /\ \A i \in 1..Len(last.args0) :
         last.sentArgs[i] = IF last.args0[i] = NOW THEN last.at ELSE last.args0[i]
    /\ (last.op \in {"create", "createEach"} /\ last.outcome = "resolved") =>
         \A j \in 1..Len(Written) : \A c \in AutoTimestamps(M) :
           Written[j][c] = last.at

\* C8's case: a createEach of two Audited rows, forced when the clock had
\* advanced, wrote both rows beside none, each marker resolved
C8_Witness ==
  /\ M = "Audited" /\ last.op = "createEach" /\ last.outcome = "resolved"
  /\ Len(Written) = 2
  /\ Cardinality(Markers(last.args0)) = 8
  /\ last.at = MaxClock

\* C9: update(criteria).set({}) and updateOne(criteria).set({}) return a
\* builder, on which fetch can be called; forcing it resolves and leaves the
\* table as it was.
C9_EmptySetIsNoOpBuilder ==
  /\ (pb.op \in {"update", "updateOne"} /\ pb.propses = << <<>> >>)
       => pb.ret = "builder"
  /\ (last.op \in {"update", "updateOne"} /\ last.propses = << <<>> >>)
       => (last.outcome = "resolved" /\ last.after = last.before)

\* what criteria mean: the positions of the rows they match
Matches(rows, criteria) ==
  {i \in 1..Len(rows) :
     CASE criteria.t = "undefined" -> TRUE
       [] criteria.t = "scalar" -> rows[i].id = criteria.v
       [] criteria.t = "map" ->
            \A j \in 1..Len(criteria.entries) :
              LET e == criteria.entries[j]
              IN e.t = "val" /\ rows[i][e.k] = e.v}

\* row i of the table with props assigned
Assigned(rows, i, props) ==
  [rows EXCEPT ![i] = [c \in DOMAIN rows[i] |->
                         IF HasKey(props, c) THEN Get(props, c) ELSE rows[i][c]]]

\* C10: a forced findOne(criteria), or updateOne(criteria).set(props) with
\* props not empty, no modifier called on either: with no matching row it resolves to undefined and the
\* table is as before; with one matching row it resolves to that record,
\* updateOne having assigned props to that row and to no other; with more
\* than one it rejects with code 21000 and the table is as before.
C10_SingleMatchMultiplicity ==
  (/\ last.op \in {"findOne", "updateOne"} /\ last.outcome # "none"
   /\ last.op = "findOne" => ~last.fetch) =>
    LET hit == Matches(last.before, last.crit)
        i == CHOOSE i \in hit : TRUE
        props == IF last.op = "updateOne" THEN last.propses[1] ELSE <<>>
    IN CASE Cardinality(hit) = 0 ->
              /\ last.outcome = "resolved" /\ last.val.k = "undefined"
              /\ last.after = last.before
         [] Cardinality(hit) = 1 ->
              /\ last.outcome = "resolved" /\ last.val.k = "row"
              /\ last.after = Assigned(last.before, i, props)
              /\ last.val.rows[1].id = last.after[i].id
              /\ last.val.rows[1].name = last.after[i].name
         [] OTHER ->
              /\ last.outcome = "rejected" /\ last.code = 21000
              /\ last.after = last.before

\* rows without the row at position i
Without(rows, i) == SubSeq(rows, 1, i - 1) \o SubSeq(rows, i + 1, Len(rows))

\* C11: an awaited destroyOne(criteria): with no matching row it resolves and
\* the table is as before; with one it resolves and exactly that row is
\* gone; with more than one it rejects with code 21000 and the table is as
\* before.
C11_DestroyOneMultiplicity ==
  (last.op = "destroyOne" /\ last.outcome # "none") =>
    LET hit == Matches(last.before, last.crit)
    IN CASE Cardinality(hit) = 0 ->
              last.outcome = "resolved" /\ last.after = last.before
         [] Cardinality(hit) = 1 ->
              /\ last.outcome = "resolved"
              /\ last.after = Without(last.before, CHOOSE i \in hit : TRUE)
         [] OTHER ->
              /\ last.outcome = "rejected" /\ last.code = 21000
              /\ last.after = last.before

\* C12: an awaited destroy() or destroy({}) resolves and leaves the table
\* empty; on an empty table it resolves to an empty list of rows.
C12_DestroyWholeTable ==
  (/\ last.op = "destroy" /\ last.outcome # "none"
   /\ last.crit \in {NoCriteria, Mapping(<<>>)}) =>
    /\ last.outcome = "resolved" /\ last.after = <<>>
    /\ last.before = <<>> => last.val = Value("rows", <<>>, 0)

\* C19: criteria that are a scalar v compile to `WHERE id = $n` with v bound
\* at n, so a forced find(v), findOne(v), update(v).set or updateOne(v).set
\* changes and returns no row whose id is not v.
C19_ScalarIsPrimaryKey ==
  /\ (pb.ret = "builder" /\ pb.crit.t = "scalar") =>
       /\ Len(pb.sql.wher) = 1
       /\ pb.sql.wher[1].col = "id" /\ pb.sql.wher[1].form = "="
       /\ pb.sql.wher[1].ph = Len(pb.args.list)
       /\ pb.args.list[pb.sql.wher[1].ph] = pb.crit.v
  /\ (last.crit.t = "scalar" /\ last.outcome = "resolved") =>
       /\ \A i \in 1..Len(last.before) :
            last.after[i] # last.before[i] => last.before[i].id = last.crit.v
       /\ last.val.k \in {"row", "rows"} =>
            \A i \in 1..Len(last.val.rows) : last.val.rows[i].id = last.crit.v

\* ---- what criteria compile to, as the documentation states it

\* whether an entry binds a parameter
Binds(e) ==
  IF e.t = "val" THEN e.v # Null
  ELSE ~(e.ops[1].op = "!=" /\ e.ops[1].v = Null)
\* the value it binds
Bound(e) == IF e.t = "val" THEN e.v ELSE e.ops[1].v
\* the failure an entry causes, "" when none
Failure(e) ==
  IF e.t # "ops" THEN ""
  ELSE IF Len(e.ops) # 1 THEN "InvalidCriteria"
  ELSE IF e.ops[1].op \notin {"<", ">", "<=", ">=", "!="} THEN "UnsupportedOperator"
  ELSE ""
\* the condition of an entry whose parameter, if any, is $n
Condition(e, n) ==
  IF e.t = "val"
  THEN IF e.v = Null THEN Clause(e.k, "IS NULL", "", 0)
       ELSE IF IsArray(e.v) THEN Clause(e.k, "=ANY", "", n)
       ELSE Clause(e.k, "=", "", n)
  ELSE IF e.ops[1].op = "!=" /\ e.ops[1].v = Null THEN Clause(e.k, "IS NOT NULL", "", 0)
  ELSE IF e.ops[1].op = "!=" /\ IsArray(e.ops[1].v) THEN Clause(e.k, "NOT =ANY", "", n)
  ELSE Clause(e.k, "op", e.ops[1].op, n)
\* the message of the Error that stands for a failure
MessageOf(failure) ==
  IF failure = "InvalidCriteria" THEN "TODO: " ELSE "Unrecognised op in criteria"

\* C20: find(criteria) and update(criteria).set(props), criteria absent or a
\* mapping: if an entry is an operator mapping without exactly one operator,
\* or with an operator that is none of < > <= >= !=, the call throws the
\* Error of the first such entry and returns no builder; otherwise the
\* statement has one condition per entry, in order (null: IS NULL, an array:
\* = ANY($n), {!=: null}: IS NOT NULL, {!=: array}: NOT = ANY($n), {op: v}:
\* op $n, a scalar: = $n), and the values bound after those of SET are those
\* of the entries that bind one, each at its condition's $n.
C20_WhereAsDocumented ==
  (/\ pb.op \in {"find", "update"} /\ pb.crit.t \in {"undefined", "map"}
   /\ pb.op = "update" => pb.propses # << <<>> >>) =>
    LET es == pb.crit.entries
        n0 == IF pb.op = "update" THEN Len(pb.propses[1]) ELSE 0
        bad == {j \in 1..Len(es) : Failure(es[j]) # ""}
        first == CHOOSE j \in bad : \A j2 \in bad : j <= j2
        n(j) == n0 + Cardinality({j2 \in 1..j : Binds(es[j2])})
    IN IF bad # {}
       THEN pb.ret = "threw" /\ pb.error = MessageOf(Failure(es[first]))
       ELSE /\ pb.ret = "builder"
            /\ pb.sql.wher = [j \in 1..Len(es) |-> Condition(es[j], n(j))]
            /\ Len(pb.args.list) = n0 + Cardinality({j \in 1..Len(es) : Binds(es[j])})
            /\ \A j \in 1..Len(es) : Binds(es[j]) => pb.args.list[n(j)] = Bound(es[j])

\* C20's case: an update whose criteria compiled to IS NULL and
\* NOT = ANY($2), the array bound after the value of SET
C20_Witness ==
  /\ pb.ret = "builder" /\ pb.op = "update"
  /\ Len(pb.sql.wher) = 2
  /\ pb.sql.wher[1].form = "IS NULL"
  /\ pb.sql.wher[2].form = "NOT =ANY" /\ pb.sql.wher[2].ph = 2
  /\ IsArray(pb.args.list[2])

\* C22: create and createEach without id, on a model whose id is
\* autoIncrement, bind no value for the id column; on an empty table the rows
\* created get the ids 1, 2, ... in order, and create(...).fetch() resolves
\* to the row as stored.
C22_StoreAssignsId ==
  /\ (pb.ret = "builder" /\ pb.op \in {"create", "createEach"}) =>
       \A k \in 1..Len(pb.sql.cols) : pb.sql.cols[k] # "id"
  /\ (last.op \in {"create", "createEach"} /\ last.outcome = "resolved") =>
       /\ last.before = <<>> =>
            \A j \in 1..Len(last.after) : last.after[j].id = j
       /\ (last.op = "create" /\ last.fetch) =>
            /\ last.val.k = "row"
            /\ last.val.rows[1].id = last.after[Len(last.after)].id
            /\ \A j \in 1..Len(last.before) :
                 last.before[j].id # last.val.rows[1].id

\* C23: update(criteria).set(props) and updateOne(criteria).set(props)
\* assign exactly the columns that are keys of props; once forced, a row that
\* criteria match keeps every other column and a row they do not match keeps
\* every column.
C23_SetAssignsOnlyProps ==
  /\ (pb.ret = "builder" /\ pb.op \in {"update", "updateOne"}) =>
       [k \in 1..Len(pb.sql.sets) |-> pb.sql.sets[k].col] = Keys(pb.propses[1])
  /\ (last.op \in {"update", "updateOne"} /\ last.outcome # "none") =>
       /\ Len(last.after) = Len(last.before)
       /\ \A i \in 1..Len(last.before) :
            IF i \in Matches(last.before, last.crit)
            THEN \A c \in DOMAIN last.before[i] :
                   ~HasKey(last.propses[1], c) =>
                     last.after[i][c] = last.before[i][c]
            ELSE last.after[i] = last.before[i]

\* C24: createEach([]) does not throw and returns an object that has then,
\* usingConnection and fetch; forcing it, with or without fetch, sends no
\* statement and resolves to an empty list.
C24_EmptyCreateEachIsThenable ==
  /\ (pb.op = "createEach" /\ pb.propses = <<>> /\ ~pb.opts.fetch) =>
       /\ pb.ret # "threw"
       /\ {"then", "usingConnection", "fetch"} \subseteq Methods(pb)
  /\ (pb.op = "createEach" /\ pb.propses = <<>> /\ pb.opts.fetch) =>
       "then" \in Methods(pb)
  /\ (last.op = "createEach" /\ last.propses = <<>> /\ last.outcome # "none") =>
       /\ last.outcome = "resolved" /\ last.val = Value("rows", <<>>, 0)
       /\ ~last.sent /\ last.after = last.before

\* C26: what find, findOne, create, createEach, update(...).set and
\* updateOne(...).set return takes a schema name through meta({schemaName}).
C26_BuildersAcceptMeta ==
  (pb.op \in {"find", "findOne", "create", "createEach", "update", "updateOne"}
   /\ pb.ret \in {"builder", "emptyThenable"}) =>
    "meta" \in Methods(pb)

-----------------------------------------------------------------------------
(* Claims about populate *)

\* the rows of the table that the criteria of the latest force select
Primary ==
  SelectSeq(last.before,
            LAMBDA r : last.crit.t = "undefined" \/ r.id = last.crit.v)
\* the foreign keys of those rows, in row order
ForeignKeys == [i \in 1..Len(Primary) |-> Primary[i].my_simple]
\* what a row with foreign key fk is to carry: the record of Simple with
\* that id, or nothing
Related(fk) ==
  LET hits == SelectSeq(rel, LAMBDA r : r.id = fk)
  IN IF hits = <<>> THEN <<>> ELSE <<hits[1]>>
\* a forced find().populate('my_simple')
FindPopulated ==
  last.op = "find" /\ last.populate = "my_simple" /\ last.outcome # "none"
\* after it: the builder resolved with the primary rows in their order, each
\* carrying its related record or nothing
MergedInOrder ==
  /\ last.outcome = "resolved" /\ last.val.k = "rows"
  /\ last.val.rows = Primary
  /\ last.val.pop = [i \in 1..Len(Primary) |-> Related(ForeignKeys[i])]

\* C13: a forced findOne().populate(attr) whose primary statement succeeded:
\* with no matching row it resolves to nothing and sends no follow-up
\* statement; with a row whose foreign key is null it resolves, the populated
\* attribute is absent and no follow-up statement is sent; with a row whose
\* foreign key is not null it sends one follow-up statement, bound to that key.
C13_SinglePopulateLooksUpOnlyKeys ==
  (/\ last.op = "findOne" /\ last.populate = "my_simple"
   /\ last.outcome # "none" /\ last.code = 0) =>
    CASE Primary = <<>> ->
           /\ last.outcome = "resolved" /\ last.val.k = "undefined"
           /\ last.followups = <<>>
      [] Primary # <<>> /\ ForeignKeys[1] = Null ->
           /\ last.outcome = "resolved" /\ last.val.pop = << <<>> >>
           /\ last.followups = <<>>
      [] OTHER ->
           /\ last.outcome = "resolved"
           /\ last.followups = <<Followup("id=$1", <<ForeignKeys[1]>>)>>

-----------------------------------------------------------------------------
(* Claims about the statements compiled *)

\* the sequences of seqs, one after the other
RECURSIVE Concat(_)
Concat(seqs) == IF seqs = <<>> THEN <<>> ELSE Head(seqs) \o Concat(Tail(seqs))
\* the numbers of the placeholders of a statement, in the order they are
\* written: those of VALUES, those of SET, those of WHERE
Placeholders(s) ==
  Concat(s.tuples)
    \o [k \in 1..Len(s.sets) |-> s.sets[k].ph]
    \o SelectSeq([k \in 1..Len(s.wher) |-> s.wher[k].ph], LAMBDA n : n # 0)
\* a value the caller gave, that no default replaces
Given(props, k) == Get(props, k) \notin {Undefined, Null}

\* C27: in every statement a model operation compiles the placeholders are
\* $1..$k in the order written, k being the number of arguments, those of SET
\* before those of WHERE; a condition without placeholder has no argument;
\* the argument at each placeholder is the value of the clause that wrote
\* it: the value given for the column of VALUES or SET, the value of the
\* criteria entry, or the scalar criteria.
C27_PlaceholdersMatchArguments ==
  pb.ret = "builder" =>
    LET s == pb.sql
        a == pb.args.list
    IN /\ Placeholders(s) = [i \in 1..Len(a) |-> i]
       /\ \A t \in 1..Len(s.tuples) : \A j \in 1..Len(s.cols) :
            Given(pb.propses[t], s.cols[j]) =>
              a[s.tuples[t][j]] = Get(pb.propses[t], s.cols[j])
       /\ \A k \in 1..Len(s.sets) :
            Given(pb.propses[1], s.sets[k].col) =>
              a[s.sets[k].ph] = Get(pb.propses[1], s.sets[k].col)
       /\ pb.crit.t = "scalar" =>
            Len(s.wher) = 1 /\ a[s.wher[1].ph] = pb.crit.v
       /\ pb.crit.t = "map" =>
            /\ Len(s.wher) = Len(pb.crit.entries)
            /\ \A j \in 1..Len(s.wher) :
                 IF Binds(pb.crit.entries[j])
                 THEN a[s.wher[j].ph] = Bound(pb.crit.entries[j])
                 ELSE s.wher[j].ph = 0

\* C27's case: an updateOne whose criteria wrote IS NULL and then a
\* condition with $2, after the $1 of SET
C27_Witness ==
  /\ pb.ret = "builder" /\ pb.op = "updateOne"
  /\ Len(pb.sql.wher) = 2 /\ pb.sql.wher[1].form = "IS NULL"
  /\ pb.sql.wher[2].ph = 2 /\ Len(pb.args.list) = 2

-----------------------------------------------------------------------------
(* Claims about the registry *)

\* what the claim's reference lets attribute cfg hold after the call, when
\* the caller gave v0 for it (Undefined: gave nothing)
Agrees(cfg, v0, creating, w) ==
  IF v0 \notin {Undefined, Null} THEN w = v0
  ELSE IF creating /\ v0 = Undefined /\ cfg.defaultsTo # Undefined
  THEN IF IsObject(cfg.defaultsTo)
       THEN IsObject(w) /\ w # cfg.defaultsTo /\ Content(w) = Content(cfg.defaultsTo)
       ELSE w = cfg.defaultsTo
  ELSE IF creating \/ v0 = Null
  THEN IF cfg.autoCreatedAt THEN w = (IF creating THEN NOW ELSE v0)
       ELSE IF cfg.autoUpdatedAt THEN w = NOW
       ELSE IF ~cfg.allowNull /\ cfg.type \in {"string", "number", "boolean"}
       THEN w = (CASE cfg.type = "string" -> EmptyString
                   [] cfg.type = "number" -> 0
                   [] cfg.type = "boolean" -> False)
       ELSE w = v0
  ELSE w = v0

C25_RegistryFields ==
  ap.f = "exports" =>
    /\ ap.models.globalId = ap.name
    /\ ap.models.tableName = toLowerCase(ap.name)
    /\ "identity" \in DOMAIN ap.models
    /\ ap.models.identity = toLowerCase(ap.name)
    /\ \A i \in 1..Len(ap.Model.attributes) :
         Get(ap.models.attributes, ap.Model.attributes[i].k) = ap.Model.attributes[i].v
    /\ \A i \in 1..Len(ap.defaultAttributes) :
         ~HasKey(ap.Model.attributes, ap.defaultAttributes[i].k) =>
           Get(ap.models.attributes, ap.defaultAttributes[i].k)
             = ap.defaultAttributes[i].v
    /\ \A i \in 1..Len(ap.models.attributes) :
         \/ HasKey(ap.Model.attributes, ap.models.attributes[i].k)
         \/ HasKey(ap.defaultAttributes, ap.models.attributes[i].k)
    /\ ap.ModelAfter = ap.Model /\ ap.defaultAttributesAfter = ap.defaultAttributes

=============================================================================
